---- MODULE Spec2Model ----
(***************************************************************************)
(* Team balancer: run() = prepare_data; infer_num_teams; build_and_solve.  *)
(* The CP-SAT solver is an external engine: it returns any valuation that  *)
(* satisfies the constraints the builder added, with status OPTIMAL only   *)
(* when that valuation minimises the objective the builder set.            *)
(*                                                                         *)
(* Real numbers (skills, weights, reported scores) are exact fractions     *)
(* [num, den]; Python's None is the empty sequence for an optional integer *)
(* and the string None for an optional name.                               *)
(***************************************************************************)
EXTENDS Integers, Sequences, FiniteSets, TLC

VARIABLES pc, df, cfg, num_teams, model, solver_calls, status, val, out, diag, err

vars == <<pc, df, cfg, num_teams, model, solver_calls, status, val, out, diag, err>>

(* ------------------------------ bounds --------------------------------- *)
\* Window of the 0..1e9 domain of a deviation variable explored around |diff|.
MaxSlack == 1
\* Largest configured num_teams.
MaxTeamsCfg == 2

(* ------------------------------ helpers -------------------------------- *)
None == "None"

Frac(n, d) == [num |-> n, den |-> d]

Abs(i) == IF i < 0 THEN -i ELSE i

Max(a, b) == IF a >= b THEN a ELSE b

RECURSIVE SumSeq(_)
SumSeq(q) == IF q = <<>> THEN 0 ELSE Head(q) + SumSeq(Tail(q))

RECURSIVE SumOver(_, _)
\* sum(f[k] for k in S)
SumOver(f, S) ==
    IF S = {} THEN 0
    ELSE LET k == CHOOSE e \in S : TRUE IN f[k] + SumOver(f, S \ {k})

\* numpy.round of n/d (n >= 0, d > 0): round half to even.
RoundHalfEven(n, d) ==
    LET q == n \div d
        r == n % d
    IN  IF 2 * r < d THEN q
        ELSE IF 2 * r > d THEN q + 1
        ELSE IF q % 2 = 0 THEN q ELSE q + 1

\* int(w * SCALE) for a non-negative fraction w: truncation.
IntOfScaled(w, scale) == (w.num * scale) \div w.den

(* ------------------------------ inputs --------------------------------- *)
AllNames == <<"P1", "P2", "P3", "P4", "P5", "P6">>

\* Position column of the signups table, one table per roster shape.
PositionTables ==
    { <<1, 2>>, <<1, 3>>, <<1, 1, 2>>,
      <<1, 1, 2, 2>>, <<1, 1, 1, 2>>, <<1, 1, 1, 1>>,
      <<1, 1, 2, 2, 1, 2>> }

NameTables(n) ==
    IF n = 2 THEN { <<"P1", "P2">>, <<"P1", "P1">> }
    ELSE { SubSeq(AllNames, 1, n) }

SkillTables ==
    { << Frac(10, 1), Frac(20, 1), Frac(15, 1), Frac(25, 1), Frac(30, 1), Frac(12, 1) >>,
      << Frac(10, 1), Frac(20, 1), Frac(15004, 1000), Frac(2501, 100), Frac(30, 1), Frac(12, 1) >>,
      << Frac(6000000, 1), Frac(6000000, 1), Frac(15, 1), Frac(25, 1), Frac(30, 1), Frac(12, 1) >> }

AvoidTables ==
    { << None, None, None, None, None, None >>,
      << "P4", "Zed", None, "P1", None, "P5" >>,
      << "P3", "P2", None, None, None, None >> }

RoleList == <<1, 2>>

RoleWeightTables ==
    { (1 :> Frac(1, 1)) @@ (2 :> Frac(1, 1)),
      (1 :> Frac(3, 2)) }

PolicyNames == {"none", "at_least_one", "separate", "exactly_one"}

\* <<balance_weight, conflict_weight, captain_weight>>
WeightTables ==
    { << Frac(1, 1), Frac(1, 1), Frac(5, 1) >>,
      << Frac(0, 1), Frac(1, 1), Frac(5, 1) >>,
      << Frac(1, 1), Frac(1, 200), Frac(5, 1) >>,
      << Frac(1, 1), Frac(1, 1), Frac(0, 1) >>,
      << Frac(0, 1), Frac(0, 1), Frac(0, 1) >> }

\* presets: name -> 1-based team, in dict order
PresetTables ==
    { << >>,
      << <<"P1", 2>> >>,
      << <<"P1", 2>>, <<"P2", 2>> >>,
      << <<"P2", 1>>, <<"P4", 1>> >>,
      << <<"Zed", 1>> >>,
      << <<"P3", 3>> >>,
      << <<"P1", 1>>, <<"P3", 0>> >> }

NumTeamsCfgs == { << >> } \cup { <<k>> : k \in 1..MaxTeamsCfg }

DefaultWeights == << Frac(1, 1), Frac(1, 1), Frac(5, 1) >>
DefaultRoleWeights == (1 :> Frac(1, 1)) @@ (2 :> Frac(1, 1))

CoreCaptains == { <<0, 1, 0, 1>>, <<0, 0, 0, 1>>, <<1, 1, 1, 0>>, <<1, 1, 0, 0>> }

\* Captain columns of the three-team roster: 2, 3 and 4 captains.
ThreeTeamCaptains ==
    { <<1, 0, 0, 1, 0, 0>>, <<1, 1, 0, 1, 0, 0>>, <<1, 1, 1, 1, 0, 0>> }

\* Every roster of up to four players meets the default tuning; the two-team
\* roster with the core captain columns meets every tuning; the three-team
\* roster meets every captain policy; the table of very large skills goes
\* with the two-player rosters only.
InputOK(d, c) ==
    \/ /\ c.role_weights = DefaultRoleWeights
       /\ c.presets = << >>
       /\ <<c.balance_weight, c.conflict_weight, c.captain_weight>> = DefaultWeights
       /\ \/ Len(d.Name) <= 4 /\ (d.Skill[1] = Frac(10, 1) \/ Len(d.Name) = 2)
          \/ /\ d.Captain \in ThreeTeamCaptains
             /\ d.Avoid[1] = "P4"
             /\ d.Skill[3] = Frac(15, 1)
             /\ c.num_teams = << >>
    \/ /\ d.Position = <<1, 1, 2, 2>>
       /\ d.Skill[1] = Frac(10, 1)
       /\ d.Captain \in CoreCaptains
       /\ c.num_teams = << >>
       /\ c.role_weights = DefaultRoleWeights
    \/ /\ d.Position = <<1, 1, 2, 2>>
       /\ d.Skill[1] = Frac(10, 1)
       /\ d.Captain = <<0, 1, 0, 1>>
       /\ c.num_teams = << >>
       /\ c.presets = << >>

NoModel == [built |-> FALSE]
NoVal == [solved |-> FALSE]
NoOut == [Team |-> << >>]
NoDiag == [status |-> None]

Init ==
    /\ \E pos \in PositionTables, sk \in SkillTables, av \in AvoidTables :
       \E nm \in NameTables(Len(pos)), cap \in [1..Len(pos) -> {0, 1}] :
       \E nt \in NumTeamsCfgs, rw \in RoleWeightTables, pol \in PolicyNames,
          hard \in BOOLEAN, w \in WeightTables, pr \in PresetTables :
          /\ df = [ Name |-> nm,
                    Skill |-> SubSeq(sk, 1, Len(pos)),
                    Position |-> pos,
                    Captain |-> [i \in 1..Len(pos) |-> cap[i]],
                    Avoid |-> SubSeq(av, 1, Len(pos)) ]
          /\ cfg = [ num_teams |-> nt,
                     roles |-> RoleList,
                     role_weights |-> rw,
                     captain_policy |-> pol,
                     captain_hard |-> hard,
                     balance_weight |-> w[1],
                     conflict_weight |-> w[2],
                     captain_weight |-> w[3],
                     presets |-> pr ]
          /\ InputOK(df, cfg)
    /\ pc = "start"
    /\ num_teams = 0
    /\ model = NoModel
    /\ solver_calls = 0
    /\ status = None
    /\ val = NoVal
    /\ out = NoOut
    /\ diag = NoDiag
    /\ err = None

(* --------------------------- data_prep.py ------------------------------ *)
Range(q) == { q[i] : i \in 1..Len(q) }

\* prepare_data: the first validation that fails, or None.
PrepareError(d, roles) ==
    IF Range(d.Position) \ Range(roles) # {} THEN "ValueError: unknown roles"
    ELSE IF Cardinality(Range(d.Name)) # Len(d.Name) THEN "ValueError: duplicate names"
    ELSE None

Fail(e) ==
    /\ pc' = "failed"
    /\ err' = e
    /\ UNCHANGED <<df, cfg, num_teams, model, solver_calls, status, val, out, diag>>

PrepareData ==
    /\ pc = "start"
    /\ IF PrepareError(df, cfg.roles) # None
       THEN Fail(PrepareError(df, cfg.roles))
       ELSE /\ pc' = "prepared"
            /\ UNCHANGED <<df, cfg, num_teams, model, solver_calls, status, val, out, diag, err>>

\* df.groupby("Position")["Name"].count()
RoleCount(d, r) == Cardinality({ i \in 1..Len(d.Position) : d.Position[i] = r })

\* infer_num_teams: [err, num_teams]
InferResult(d, roles, num_teams_cfg) ==
    LET present == Range(d.Position)
        first == CHOOSE r \in present : \A q \in present : r <= q
        inferErr ==
            IF num_teams_cfg # << >> THEN None
            ELSE IF present # Range(roles) THEN "ValueError: roles mismatch"
            ELSE IF \E r \in present : RoleCount(d, r) # RoleCount(d, first)
                 THEN "ValueError: unequal role counts"
            ELSE None
        nt == IF num_teams_cfg # << >> THEN num_teams_cfg[1] ELSE RoleCount(d, first)
    IN  IF inferErr # None THEN [err |-> inferErr, num_teams |-> 0]
        ELSE IF Len(d.Name) # nt * Len(roles)
             THEN [err |-> "ValueError: player count", num_teams |-> 0]
        ELSE [err |-> None, num_teams |-> nt]

InferNumTeams ==
    /\ pc = "prepared"
    /\ LET r == InferResult(df, cfg.roles, cfg.num_teams)
       IN  IF r.err # None
           THEN Fail(r.err)
           ELSE /\ pc' = "teams"
                /\ num_teams' = r.num_teams
                /\ UNCHANGED <<df, cfg, model, solver_calls, status, val, out, diag, err>>

(* ----------------------- solver.py: model builder ---------------------- *)
SCALE == 100

\* int(1e9): upper end of the score and deviation variables' domains.
IntMax == 1000000000

Players(d) == 1..Len(d.Name)

Team_ids(T) == 0..(T - 1)

\* name_to_idx = {n: i for i, n in enumerate(players)}: the last row wins.
InNameToIdx(d, n) == \E i \in Players(d) : d.Name[i] = n

NameToIdx(d, n) ==
    CHOOSE i \in Players(d) : d.Name[i] = n /\ \A j \in Players(d) : d.Name[j] = n => j <= i

\* role_weights.get(r, 1.0)
WeightByRole(role_weights, r) ==
    IF r \in DOMAIN role_weights THEN role_weights[r] ELSE Frac(1, 1)

\* np.round(skill * weight_by_role * SCALE).astype(int)
ScaledWs(d, role_weights) ==
    [ p \in Players(d) |->
        LET w == WeightByRole(role_weights, d.Position[p])
        IN  RoundHalfEven(d.Skill[p].num * w.num * SCALE, d.Skill[p].den * w.den) ]

RECURSIVE AvoidPairsFrom(_, _)
\* Directed pairs (A avoids B), one per row whose Avoid names a player.
AvoidPairsFrom(d, i) ==
    IF i > Len(d.Name) THEN << >>
    ELSE LET b == d.Avoid[i]
             here == IF b # None /\ InNameToIdx(d, b)
                     THEN << <<NameToIdx(d, d.Name[i]), NameToIdx(d, b)>> >>
                     ELSE << >>
         IN  here \o AvoidPairsFrom(d, i + 1)

AvoidPairs(d) == AvoidPairsFrom(d, 1)

TeamInRange_ZeroAllowed(team1, T) == 0 <= team1 /\ team1 <= T

TeamInRange(team1, T) == 1 <= team1 /\ team1 <= T

RECURSIVE PresetError(_, _, _, _)
\* The first preset, in dict order, that is rejected; None when all pass.
PresetError(d, presets, T, i) ==
    IF i > Len(presets) THEN None
    ELSE IF ~InNameToIdx(d, presets[i][1]) THEN "ValueError: preset player not found"
    ELSE IF ~TeamInRange(presets[i][2], T) THEN "ValueError: preset team out of range"
    ELSE PresetError(d, presets, T, i + 1)

Pins_OneBased(d, presets) ==
    [ i \in 1..Len(presets) |-> << NameToIdx(d, presets[i][1]), presets[i][2] >> ]

\* Pins <<player index, 0-based team>> added for the presets.
Pins(d, presets) ==
    [ i \in 1..Len(presets) |-> << NameToIdx(d, presets[i][1]), presets[i][2] - 1 >> ]

PolicyKnown(policy) == policy \in {"none", "at_least_one", "separate"}

NumCaptains(d) == SumSeq(d.Captain)

PigeonholeFails_OffByOne(policy, num_captains, T) ==
    \/ policy = "at_least_one" /\ num_captains <= T
    \/ policy = "separate" /\ num_captains >= T

PigeonholeFails_Strict(policy, num_captains, T) ==
    \/ policy = "at_least_one" /\ num_captains < T - 1
    \/ policy = "separate" /\ num_captains > T + 1

\* The pigeonhole test that downgrades a hard captain policy to soft.
PigeonholeFails(policy, num_captains, T) ==
    \/ policy = "at_least_one" /\ num_captains < T
    \/ policy = "separate" /\ num_captains > T

Downgrade(policy, hard, num_captains, T) ==
    hard /\ PigeonholeFails(policy, num_captains, T)

Warnings(policy, hard, num_captains, T) ==
    IF ~Downgrade(policy, hard, num_captains, T) THEN << >>
    ELSE IF policy = "at_least_one"
         THEN << "Not enough captains for 'at_least_one' hard constraint; downgrading to soft penalty." >>
         ELSE << "Too many captains for 'separate' hard constraint; downgrading to soft penalty." >>

\* captain_hard after the downgrade
EffectiveHard(policy, hard, num_captains, T) ==
    hard /\ ~Downgrade(policy, hard, num_captains, T)

\* Hard captain constraint added per team: "ge1", "le1" or "none".
CaptainConstraint(policy, effHard) ==
    IF policy = "at_least_one" /\ effHard THEN "ge1"
    ELSE IF policy = "separate" /\ effHard THEN "le1"
    ELSE "none"

\* Violation variables added per team: "min" (m_t), "max" (k_t) or "none".
PenaltyKind(policy, effHard) ==
    IF policy = "at_least_one" /\ ~effHard THEN "min"
    ELSE IF policy = "separate" /\ ~effHard THEN "max"
    ELSE "none"

ConflictCoef(conflict_weight) == IntOfScaled(conflict_weight, SCALE)

CaptainCoef(captain_weight) == IntOfScaled(captain_weight, SCALE)

ObjTerms_NoBalance(c, pairs, penalty) ==
    (IF c.conflict_weight.num # 0 /\ pairs # << >>
        THEN << [over |-> "y", coef |-> Frac(ConflictCoef(c.conflict_weight), 1)] >> ELSE << >>)
    \o (IF c.captain_weight.num # 0 /\ penalty # "none"
        THEN << [over |-> "pen", coef |-> Frac(CaptainCoef(c.captain_weight), 1)] >> ELSE << >>)

\* obj_terms: each term is coef * sum(the variables of one family).
ObjTerms(c, pairs, penalty) ==
    (IF c.balance_weight.num # 0
        THEN << [over |-> "d", coef |-> c.balance_weight] >> ELSE << >>)
    \o (IF c.conflict_weight.num # 0 /\ pairs # << >>
        THEN << [over |-> "y", coef |-> Frac(ConflictCoef(c.conflict_weight), 1)] >> ELSE << >>)
    \o (IF c.captain_weight.num # 0 /\ penalty # "none"
        THEN << [over |-> "pen", coef |-> Frac(CaptainCoef(c.captain_weight), 1)] >> ELSE << >>)

\* build_and_solve up to model.Minimize: the first error raised, or None.
BuildError(d, c, T) ==
    IF PresetError(d, c.presets, T, 1) # None THEN PresetError(d, c.presets, T, 1)
    ELSE IF ~PolicyKnown(c.captain_policy) THEN "ValueError: captain_policy"
    ELSE None

BuiltModel(d, c, T) ==
    LET ws == ScaledWs(d, c.role_weights)
        nc == NumCaptains(d)
        eff == EffectiveHard(c.captain_policy, c.captain_hard, nc, T)
        pen == PenaltyKind(c.captain_policy, eff)
        pairs == AvoidPairs(d)
    IN  [ built |-> TRUE,
          roles |-> Range(c.roles),
          scaled_ws |-> ws,
          target |-> SumOver(ws, Players(d)) \div T,
          pins |-> Pins(d, c.presets),
          avoid_pairs |-> pairs,
          num_captains |-> nc,
          captain_hard |-> eff,
          captain_constraint |-> CaptainConstraint(c.captain_policy, eff),
          penalty |-> pen,
          feasibility_warnings |-> Warnings(c.captain_policy, c.captain_hard, nc, T),
          obj_terms |-> ObjTerms(c, pairs, pen) ]

BuildModel ==
    /\ pc = "teams"
    /\ IF BuildError(df, cfg, num_teams) # None
       THEN Fail(BuildError(df, cfg, num_teams))
       ELSE /\ pc' = "built"
            /\ model' = BuiltModel(df, cfg, num_teams)
            /\ UNCHANGED <<df, cfg, num_teams, solver_calls, status, val, out, diag, err>>

(* ------------------- the constraints of the built model ---------------- *)
\* model.Add(sum(x[(p, t)] for t in team_ids) == 1)
PlayerRowOK(row, T) == SumOver(row, Team_ids(T)) = 1

\* model.Add(sum(x[(p, t)] for p in range(P) if pos[p] == r) == 1)
TeamRoleOK(x, d, t, r) ==
    SumOver([p \in Players(d) |-> x[p][t]], { p \in Players(d) : d.Position[p] = r }) = 1

\* model.Add(x[(p, tt)] == (1 if tt == t else 0)) for every team tt
PinOK(x, pin, T) ==
    \A tt \in Team_ids(T) : x[pin[1]][tt] = (IF tt = pin[2] THEN 1 ELSE 0)

\* s[t] == sum(int(scaled_ws[p]) * x[(p, t)])
TeamScore(x, d, ws, t) == SumOver([p \in Players(d) |-> ws[p] * x[p][t]], Players(d))

\* c_t[t] == sum(is_capt[p] * x[(p, t)])
CaptainCount(x, d, t) == SumOver([p \in Players(d) |-> d.Captain[p] * x[p][t]], Players(d))

\* d[t] >= diff and d[t] >= -diff
AbsDevOK(dv, diff) == dv >= diff /\ dv >= -diff

CoPlacementOK_UpperOnly(yv, xa, xb) == yv <= xa /\ yv <= xb

\* var <= x[pa,t], var <= x[pb,t], var >= x[pa,t] + x[pb,t] - 1
CoPlacementOK(yv, xa, xb) == yv <= xa /\ yv <= xb /\ yv >= xa + xb - 1

\* c_t[t] >= 1 (at_least_one, hard) or c_t[t] <= 1 (separate, hard)
CaptainHardOK(kind, c) ==
    IF kind = "ge1" THEN c >= 1
    ELSE IF kind = "le1" THEN c <= 1
    ELSE TRUE

\* m_t >= 1 - c_t[t] (m_t in 0..1) or k_t >= c_t[t] - 1 (k_t in 0..R)
PenaltyOK(kind, pv, c, R) ==
    IF kind = "min" THEN pv \in 0..1 /\ pv >= 1 - c
    ELSE pv \in 0..R /\ pv >= c - 1

\* The assignments x the structural, preset and hard captain constraints allow,
\* with the score and captain-count variables inside their domains.
FeasibleX(m, d, T) ==
    LET rows == { row \in [Team_ids(T) -> {0, 1}] : PlayerRowOK(row, T) }
        R == Cardinality(m.roles)
    IN  { x \in [Players(d) -> rows] :
            /\ \A t \in Team_ids(T) : \A r \in m.roles : TeamRoleOK(x, d, t, r)
            /\ \A i \in 1..Len(m.pins) : PinOK(x, m.pins[i], T)
            /\ \A t \in Team_ids(T) :
                  /\ TeamScore(x, d, m.scaled_ws, t) \in 0..IntMax
                  /\ CaptainCount(x, d, t) \in 0..R
                  /\ CaptainHardOK(m.captain_constraint, CaptainCount(x, d, t)) }

\* Values of d[t] explored out of its domain 0..IntMax: the low end of the
\* domain and the neighbourhood of |s[t] - target|.
DevWindow(diff) ==
    { dv \in (0..MaxSlack) \cup ((Abs(diff) - MaxSlack)..(Abs(diff) + MaxSlack)) :
        dv \in 0..IntMax }

PenVars(m, T) == IF m.penalty = "none" THEN {} ELSE Team_ids(T)

RECURSIVE Valuations(_, _)
\* Every way of giving each variable i in D a value out of its allowed set A[i].
Valuations(D, A) ==
    IF D = {} THEN { << >> }
    ELSE LET i == CHOOSE e \in D : TRUE
         IN  { (i :> a) @@ f : a \in A[i], f \in Valuations(D \ {i}, A) }

\* Every valuation of the model's variables that extends assignment x.
ValsOfX(m, d, T, x) ==
    LET R == Cardinality(m.roles)
        s == [t \in Team_ids(T) |-> TeamScore(x, d, m.scaled_ws, t)]
        c == [t \in Team_ids(T) |-> CaptainCount(x, d, t)]
        K == 1..Len(m.avoid_pairs)
        ds == Valuations(Team_ids(T),
                 [t \in Team_ids(T) |->
                    { dv \in DevWindow(s[t] - m.target) : AbsDevOK(dv, s[t] - m.target) }])
        ys == Valuations(K,
                 [k \in K |-> Valuations(Team_ids(T),
                    [t \in Team_ids(T) |->
                       { yv \in {0, 1} :
                           CoPlacementOK(yv, x[m.avoid_pairs[k][1]][t], x[m.avoid_pairs[k][2]][t]) }])])
        ps == Valuations(PenVars(m, T),
                 [t \in PenVars(m, T) |-> { pv \in 0..R : PenaltyOK(m.penalty, pv, c[t], R) }])
    IN  { [solved |-> TRUE, x |-> x, s |-> s, d |-> dv, y |-> yv, c |-> c, pen |-> pv] :
            dv \in ds, yv \in ys, pv \in ps }

FeasibleVals(m, d, T) == UNION { ValsOfX(m, d, T, x) : x \in FeasibleX(m, d, T) }

\* sum of one family of variables in valuation v
FamilySum(over, v, T) ==
    IF over = "d" THEN SumOver(v.d, Team_ids(T))
    ELSE IF over = "y"
         THEN SumOver([k \in DOMAIN v.y |-> SumOver(v.y[k], Team_ids(T))], DOMAIN v.y)
    ELSE SumOver(v.pen, DOMAIN v.pen)

RECURSIVE DenProduct(_)
DenProduct(terms) ==
    IF terms = << >> THEN 1 ELSE Head(terms).coef.den * DenProduct(Tail(terms))

RECURSIVE ObjNum(_, _, _, _)
\* sum(obj_terms) at valuation v, times the common denominator D of the coefficients
ObjNum(terms, D, v, T) ==
    IF terms = << >> THEN 0
    ELSE Head(terms).coef.num * (D \div Head(terms).coef.den) * FamilySum(Head(terms).over, v, T)
         + ObjNum(Tail(terms), D, v, T)

Objective(m, v, T) == ObjNum(m.obj_terms, DenProduct(m.obj_terms), v, T)

\* The least objective value over the valuations F.
BestObjective(m, F, T) ==
    LET objs == { Objective(m, w, T) : w \in F }
    IN  IF F = {} THEN 0 ELSE CHOOSE o \in objs : \A q \in objs : o <= q

(* ------------------ solver.py: solve, extract, diagnostics -------------- *)
SolverFailed_InfeasibleOnly(st) == st = "INFEASIBLE"

\* status not in (cp_model.OPTIMAL, cp_model.FEASIBLE)
SolverFailed(st) == st \notin {"OPTIMAL", "FEASIBLE"}

\* team_for_p[p] = t + 1 for the first t with solver.Value(x[(p, t)]) == 1
TeamLabel_ZeroBased(x, p, T) ==
    CHOOSE t \in Team_ids(T) : x[p][t] = 1 /\ \A u \in Team_ids(T) : x[p][u] = 1 => t <= u

TeamLabel(x, p, T) ==
    (CHOOSE t \in Team_ids(T) : x[p][t] = 1 /\ \A u \in Team_ids(T) : x[p][u] = 1 => t <= u) + 1

Labelled(x, d, T) == \A p \in Players(d) : \E t \in Team_ids(T) : x[p][t] = 1

\* solver.Value(var) / SCALE
Reported(value) == Frac(value, SCALE)

Diagnostics(m, v, st, T) ==
    [ status |-> st,
      team_scores |-> [t1 \in 1..T |-> Reported(v.s[t1 - 1])],
      target_score |-> Reported(m.target),
      deviations |-> [t1 \in 1..T |-> Reported(v.d[t1 - 1])],
      captain_counts |-> [t1 \in 1..T |-> v.c[t1 - 1]],
      num_captains |-> m.num_captains,
      feasibility_warnings |-> m.feasibility_warnings ]

\* solver.Solve(model) ends with a status and, when OPTIMAL or FEASIBLE, a valuation
\* v out of F, the valuations satisfying the model (v is NoVal or a member of F);
\* OPTIMAL only at the least objective.
SolverAnswer(m, F, best, T, st, v) ==
    \/ st = "INFEASIBLE" /\ v = NoVal /\ F = {}
    \/ st = "UNKNOWN" /\ v = NoVal
    \/ st = "FEASIBLE" /\ v # NoVal
    \/ st = "OPTIMAL" /\ v # NoVal /\ Objective(m, v, T) = best

Solve ==
    /\ pc = "built"
    /\ solver_calls' = solver_calls + 1
    /\ \E F \in {FeasibleVals(model, df, num_teams)} :
       \E best \in {BestObjective(model, F, num_teams)} :
           \E v \in F \cup {NoVal} :
           \E st \in {"OPTIMAL", "FEASIBLE", "INFEASIBLE", "UNKNOWN"} :
              /\ SolverAnswer(model, F, best, num_teams, st, v)
              /\ status' = st
              /\ val' = v
              /\ IF SolverFailed(st)
                 THEN /\ pc' = "failed"
                      /\ err' = "RuntimeError: no feasible assignment"
                      /\ UNCHANGED <<out, diag>>
                 ELSE IF v = NoVal \/ ~Labelled(v.x, df, num_teams)
                 THEN /\ pc' = "failed"
                      /\ err' = "KeyError"
                      /\ UNCHANGED <<out, diag>>
                 ELSE /\ pc' = "returned"
                      /\ out' = [Team |-> [p \in Players(df) |-> TeamLabel(v.x, p, num_teams)]]
                      /\ diag' = Diagnostics(model, v, st, num_teams)
                      /\ err' = None
    /\ UNCHANGED <<df, cfg, num_teams, model>>

(* ------------------------------ properties ------------------------------ *)
Returned == pc = "returned"

Roles == Range(cfg.roles)

\* The input is valid: player count = teams x roles, each role held by exactly
\* num_teams players.
ValidInput ==
    /\ num_teams >= 1
    /\ Len(df.Name) = num_teams * Cardinality(Roles)
    /\ \A r \in Roles : RoleCount(df, r) = num_teams

\* Players carrying team label t1 in the output table.
Members(t1) == { p \in Players(df) : out.Team[p] = t1 }

\* C1: for every valid input for which a result is returned, every player carries
\* exactly one team label in 1..num_teams and every team holds exactly one player
\* of each role.
C1_OnePlayerPerRolePerTeam ==
    (Returned /\ ValidInput) =>
        /\ DOMAIN out.Team = Players(df)
        /\ \A p \in Players(df) : out.Team[p] \in 1..num_teams
        /\ \A t1 \in 1..num_teams : \A r \in Roles :
              Cardinality({ p \in Members(t1) : df.Position[p] = r }) = 1

C1_Witness ==
    /\ Returned /\ ValidInput /\ num_teams = 2
    /\ Members(1) = {2, 3}

\* C2: whenever a result is returned, each preset player's Team label equals the
\* configured 1-based team index, whatever the captain policy, avoidances and weights.
C2_PresetsHonoured ==
    Returned =>
        \A i \in 1..Len(cfg.presets) :
            \E p \in Players(df) :
                df.Name[p] = cfg.presets[i][1] /\ out.Team[p] = cfg.presets[i][2]

C2_Witness ==
    /\ Returned
    /\ cfg.presets = << <<"P2", 1>>, <<"P4", 1>> >>
    /\ cfg.captain_policy = "separate"
    /\ df.Avoid[1] = "P4"
    /\ cfg.balance_weight.num = 0
    /\ out.Team[2] = 1 /\ out.Team[4] = 1

\* C3: in every diagnostics record returned, each team's reported deviation equals
\* |reported score - reported target|, the target being the scaled grand total
\* integer-divided by the team count.
C3_DeviationIsAbsDifference ==
    Returned =>
        /\ diag.target_score = Frac(SumOver(model.scaled_ws, Players(df)) \div num_teams, SCALE)
        /\ \A t1 \in 1..num_teams :
              diag.deviations[t1] =
                  Frac(Abs(diag.team_scores[t1].num - diag.target_score.num), SCALE)

\* The pigeonhole test, stated on the inputs.
HardRequested == cfg.captain_hard /\ cfg.captain_policy \in {"at_least_one", "separate"}

PigeonholeBroken ==
    \/ cfg.captain_policy = "at_least_one" /\ SumSeq(df.Captain) < num_teams
    \/ cfg.captain_policy = "separate" /\ SumSeq(df.Captain) > num_teams

Downgraded == model.built /\ cfg.captain_hard /\ ~model.captain_hard

\* Captains among the players labelled t1.
CaptainsOn(t1) == Cardinality({ p \in Members(t1) : df.Captain[p] = 1 })

\* C4: a hard captain policy is downgraded to soft exactly when the pigeonhole
\* check fails; then there is exactly one feasibility warning and the solver is
\* still called; otherwise there is no warning and every returned result meets
\* the hard bound on every team.
C4_CaptainPolicyDowngrade ==
    model.built =>
        /\ Downgraded <=> (HardRequested /\ PigeonholeBroken)
        /\ Len(model.feasibility_warnings) = (IF Downgraded THEN 1 ELSE 0)
        /\ (Downgraded /\ pc # "built") => solver_calls = 1
        /\ Returned => diag.feasibility_warnings = model.feasibility_warnings
        /\ (Returned /\ HardRequested /\ ~PigeonholeBroken) =>
              \A t1 \in 1..num_teams :
                  /\ diag.captain_counts[t1] = CaptainsOn(t1)
                  /\ cfg.captain_policy = "at_least_one" => CaptainsOn(t1) >= 1
                  /\ cfg.captain_policy = "separate" => CaptainsOn(t1) <= 1

C4_Witness ==
    /\ Returned /\ Downgraded
    /\ cfg.captain_policy = "at_least_one"
    /\ Len(diag.feasibility_warnings) = 1
    /\ \E t1 \in 1..num_teams : CaptainsOn(t1) = 0

\* Directed avoidance pairs read off the input table: <<row, target row>>.
DirectedPairs ==
    { <<a, b>> \in Players(df) \X Players(df) : df.Avoid[a] = df.Name[b] }

\* C5: in every solution the co-placement variables sum to the number of
\* (directed avoidance pair, team) combinations with both players on that team;
\* a mutual avoidance sharing a team counts twice.
C5_ConflictCount ==
    Returned =>
        FamilySum("y", val, num_teams) =
            Cardinality({ pt \in DirectedPairs \X (1..num_teams) :
                            out.Team[pt[1][1]] = pt[2] /\ out.Team[pt[1][2]] = pt[2] })

C5_Witness ==
    /\ Returned
    /\ Len(df.Name) = 4
    /\ df.Avoid[1] = "P4" /\ df.Avoid[4] = "P1"
    /\ out.Team[1] = out.Team[4]
    /\ FamilySum("y", val, num_teams) = 2

\* The hard captain bound in force, stated on the inputs.
HardBound ==
    IF HardRequested /\ ~PigeonholeBroken THEN cfg.captain_policy ELSE "none"

\* Team labellings that satisfy every hard constraint: one player per role per
\* team, the presets, and the hard captain bound in force.
IsAdmissible(a) ==
        /\ \A t1 \in 1..num_teams : \A r \in Roles :
              Cardinality({ p \in Players(df) : a[p] = t1 /\ df.Position[p] = r }) = 1
        /\ \A i \in 1..Len(cfg.presets) :
              \E p \in Players(df) : df.Name[p] = cfg.presets[i][1] /\ a[p] = cfg.presets[i][2]
        /\ \A t1 \in 1..num_teams :
              LET c == Cardinality({ p \in Players(df) : a[p] = t1 /\ df.Captain[p] = 1 })
              IN  /\ HardBound = "at_least_one" => c >= 1
                  /\ HardBound = "separate" => c <= 1

Labellings == [Players(df) -> 1..num_teams]

\* Two players of one role preset to the same team.
SameRolePresetClash ==
    \E i, j \in 1..Len(cfg.presets) : \E p, q \in Players(df) :
        /\ p # q
        /\ df.Name[p] = cfg.presets[i][1] /\ df.Name[q] = cfg.presets[j][1]
        /\ df.Position[p] = df.Position[q]
        /\ cfg.presets[i][2] = cfg.presets[j][2]

\* C6: when the built model has no satisfying assignment (for example two players
\* of one role preset to the same team), the status is infeasible-or-unknown and
\* build_and_solve raises the solver failure, returning no table and no diagnostics.
C6_InfeasibleRaises ==
    (solver_calls > 0 /\ (SameRolePresetClash \/ ~(\E a \in Labellings : IsAdmissible(a)))) =>
        /\ status \in {"INFEASIBLE", "UNKNOWN"}
        /\ pc = "failed"
        /\ err = "RuntimeError: no feasible assignment"
        /\ out = NoOut
        /\ diag = NoDiag

C6_Witness ==
    /\ solver_calls = 1
    /\ SameRolePresetClash
    /\ status = "INFEASIBLE"
    /\ err = "RuntimeError: no feasible assignment"

\* C7: whenever the player count differs from teams x roles, or some role is not
\* held by exactly num_teams players, the run fails in validation before a model is
\* built or the solver is called, with the team count inferred or configured.
C7_StructureRejectedBeforeModel ==
    (model.built \/ solver_calls > 0) => ValidInput

ValueErrors ==
    { "ValueError: unknown roles", "ValueError: duplicate names", "ValueError: roles mismatch",
      "ValueError: unequal role counts", "ValueError: player count",
      "ValueError: preset player not found", "ValueError: preset team out of range",
      "ValueError: captain_policy" }

UnknownPolicy == cfg.captain_policy \notin {"none", "at_least_one", "separate"}

PresetUnknownPlayer ==
    \E i \in 1..Len(cfg.presets) : cfg.presets[i][1] \notin Range(df.Name)

PresetOutOfRange ==
    \E i \in 1..Len(cfg.presets) : cfg.presets[i][2] \notin 1..num_teams

RoleWeightsInconsistent == DOMAIN cfg.role_weights # Roles

\* A run that got past validation of the signups and of the team count.
PastValidation == pc \notin {"start", "prepared", "teams"} /\ num_teams >= 1

RejectedBeforeSolver ==
    /\ pc = "failed"
    /\ err \in ValueErrors
    /\ solver_calls = 0
    /\ ~model.built
    /\ out = NoOut
    /\ diag = NoDiag

\* C8 as stated: each configuration error (unknown captain policy, preset naming
\* an unknown player, preset team outside 1..T, role-weight map inconsistent with
\* the declared roles) is a fatal error raised before any solver call, with no
\* assignment returned.
C8_ConfigErrorsFatal ==
    (PastValidation /\ (UnknownPolicy \/ PresetUnknownPlayer \/ PresetOutOfRange
                        \/ RoleWeightsInconsistent))
        => RejectedBeforeSolver

\* C8 amended: an unknown captain policy, a preset naming an unknown player and a
\* preset team outside 1..T are each a fatal error raised before any solver call,
\* with no assignment returned; a role-weight map that omits a declared role is
\* not an error: the model is built with weight 1.0 for that role.
C8_ConfigErrorsFatalAmended ==
    /\ (PastValidation /\ (UnknownPolicy \/ PresetUnknownPlayer \/ PresetOutOfRange))
          => RejectedBeforeSolver
    /\ (PastValidation /\ ~(UnknownPolicy \/ PresetUnknownPlayer \/ PresetOutOfRange))
          => /\ model.built
             /\ \A p \in Players(df) :
                   df.Position[p] \notin DOMAIN cfg.role_weights =>
                       model.scaled_ws[p] =
                           RoundHalfEven(df.Skill[p].num * SCALE, df.Skill[p].den)

C8_Witness ==
    /\ pc = "failed"
    /\ UnknownPolicy
    /\ ~PresetUnknownPlayer /\ ~PresetOutOfRange
    /\ num_teams = 2
    /\ err = "ValueError: captain_policy"
    /\ solver_calls = 0

\* Coefficient of a family of variables in the objective as the code sets it
\* from the configured weights, times the denominator of the balance weight.
BalanceNum == cfg.balance_weight.num

ConflictNum ==
    IF cfg.conflict_weight.num = 0 THEN 0
    ELSE cfg.balance_weight.den * ConflictCoef(cfg.conflict_weight)

CaptainNum ==
    IF cfg.captain_weight.num = 0 THEN 0
    ELSE cfg.balance_weight.den * CaptainCoef(cfg.captain_weight)

\* The objective read off a team labelling: total deviation, co-placements and
\* soft captain violations, each with its coefficient.
LabelObjective(a) ==
    LET score(t1) == SumOver(model.scaled_ws, { p \in Players(df) : a[p] = t1 })
        capts(t1) == Cardinality({ p \in Players(df) : a[p] = t1 /\ df.Captain[p] = 1 })
        dev == SumOver([t1 \in 1..num_teams |-> Abs(score(t1) - model.target)], 1..num_teams)
        together == Cardinality({ pr \in DirectedPairs : a[pr[1]] = a[pr[2]] })
        soft == cfg.captain_policy \in {"at_least_one", "separate"} /\ HardBound = "none"
        viol == IF ~soft THEN 0
                ELSE IF cfg.captain_policy = "at_least_one"
                THEN SumOver([t1 \in 1..num_teams |-> Max(0, 1 - capts(t1))], 1..num_teams)
                ELSE SumOver([t1 \in 1..num_teams |-> Max(0, capts(t1) - 1)], 1..num_teams)
    IN  BalanceNum * dev + ConflictNum * together + CaptainNum * viol

\* The roster and configuration of the worked scenario.
Scenario ==
    /\ df.Name = <<"P1", "P2", "P3", "P4">>
    /\ df.Position = <<1, 1, 2, 2>>
    /\ df.Skill = << Frac(10, 1), Frac(20, 1), Frac(15, 1), Frac(25, 1) >>
    /\ df.Captain = <<0, 1, 0, 1>>
    /\ df.Avoid = << None, None, None, None >>
    /\ cfg.role_weights = DefaultRoleWeights
    /\ cfg.captain_policy = "at_least_one" /\ cfg.captain_hard
    /\ <<cfg.balance_weight, cfg.conflict_weight, cfg.captain_weight>>
          = << Frac(1, 1), Frac(1, 1), Frac(5, 1) >>
    /\ cfg.presets = << >>

\* C9: when the status is optimal the returned assignment attains the least
\* objective over all assignments satisfying the hard constraints; in the worked
\* scenario {P1,P4} and {P2,P3} are the teams, both scores are 35, both deviations
\* 0, each team has one captain and there is no warning.
C9_OptimalAssignment ==
    (Returned /\ status = "OPTIMAL") =>
        /\ IsAdmissible(out.Team)
        /\ \A best \in {LabelObjective(out.Team)} :
           \A a \in Labellings : IsAdmissible(a) => best <= LabelObjective(a)
        /\ Scenario =>
              /\ out.Team[1] = out.Team[4] /\ out.Team[2] = out.Team[3]
              /\ out.Team[1] # out.Team[2]
              /\ \A t1 \in 1..2 :
                    /\ diag.team_scores[t1] = Frac(35 * SCALE, SCALE)
                    /\ diag.deviations[t1] = Frac(0, SCALE)
                    /\ diag.captain_counts[t1] = 1
              /\ diag.status = "OPTIMAL"
              /\ diag.feasibility_warnings = << >>

C9_Witness ==
    /\ Returned /\ status = "OPTIMAL" /\ Scenario
    /\ Members(out.Team[1]) = {1, 4}

\* The terms of the built objective over one family of variables.
TermsOver(over) ==
    { i \in 1..Len(model.obj_terms) : model.obj_terms[i].over = over }

\* The objective has exactly one term over the family, with coefficient n/d.
HasTerm(over, n, d) ==
    /\ Cardinality(TermsOver(over)) = 1
    /\ \A i \in TermsOver(over) :
          model.obj_terms[i].coef.num * d = n * model.obj_terms[i].coef.den

\* C10: the objective is balance_weight x total deviation + conflict_weight x SCALE
\* x co-placements + captain_weight x SCALE x total violation: each term carries its
\* configured weight (times SCALE for conflicts and captains) when that weight is
\* non-zero and is absent when the weight is zero.
C10_ObjectiveCoefficients ==
    model.built =>
        /\ IF cfg.balance_weight.num # 0
           THEN HasTerm("d", cfg.balance_weight.num, cfg.balance_weight.den)
           ELSE TermsOver("d") = {}
        /\ IF cfg.conflict_weight.num = 0 THEN TermsOver("y") = {}
           ELSE model.avoid_pairs # << >> =>
                   HasTerm("y", cfg.conflict_weight.num * SCALE, cfg.conflict_weight.den)
        /\ IF cfg.captain_weight.num = 0 THEN TermsOver("pen") = {}
           ELSE model.penalty # "none" =>
                   HasTerm("pen", cfg.captain_weight.num * SCALE, cfg.captain_weight.den)


\* A valid roster with no presets: the structure is valid, captain flags are 0/1
\* and skills are non-negative.
ValidRosterNoPresets ==
    /\ ValidInput
    /\ cfg.presets = << >>
    /\ \A p \in Players(df) : df.Captain[p] \in {0, 1} /\ df.Skill[p].num >= 0

\* The model handed to the solver has a satisfying assignment, and the solver
\* never reports infeasibility: a solver failure can only be a timeout.
NeverInfeasible ==
    /\ pc = "built" => FeasibleX(model, df, num_teams) # {}
    /\ status # "INFEASIBLE"
    /\ (pc = "failed" /\ solver_calls > 0) => status = "UNKNOWN"

\* Every team's scaled score fits the score variables' domain 0..int(1e9).
ScoresFitDomain ==
    LET ws == ScaledWs(df, cfg.role_weights)
    IN  /\ \A p \in Players(df) : ws[p] >= 0
        /\ SumOver(ws, Players(df)) <= IntMax

\* C11 as stated: for every valid roster with no presets, under every captain
\* policy and hardness, the model built after the pigeonhole downgrade has a
\* satisfying assignment, so the solver failure is never raised for infeasibility.
C11_NoPresetModelFeasible ==
    ValidRosterNoPresets => NeverInfeasible

\* C11 amended: the same, for rosters whose total scaled weighted skill is at
\* most int(1e9), the upper end of the score variables' domain.
C11_NoPresetModelFeasibleAmended ==
    (ValidRosterNoPresets /\ ScoresFitDomain) => NeverInfeasible

C11_Witness ==
    /\ Returned /\ ValidRosterNoPresets /\ ScoresFitDomain
    /\ num_teams = 3
    /\ cfg.captain_policy = "separate" /\ cfg.captain_hard
    /\ SumSeq(df.Captain) = 3
    /\ model.captain_hard
    /\ \A t1 \in 1..3 : CaptainsOn(t1) = 1

Next == PrepareData \/ InferNumTeams \/ BuildModel \/ Solve

Spec == Init /\ [][Next]_vars
====
